---------------------------- MODULE Spec2Model ----------------------------
(***************************************************************************)
(* A model of the rule-driven event-response engine: the autonomous        *)
(* planner (planner.py) called by a client that holds the arguments and    *)
(* receives the returned action list, the priority score of the two        *)
(* orchestrators (agent.py, agent_simple.py), the action executor          *)
(* (executor.py) with its statistics and its concurrent callers, the       *)
(* memory tables (memory.py), the pipeline that joins them                 *)
(* (agent_simple.py), the reviewing pipeline (agent.py) and the planner    *)
(* and executor put together (test_agent.py).  Each component has its own  *)
(* next-state relation and specification over the shared variables.        *)
(*                                                                         *)
(* Python values are modelled as follows: a dict is a function whose       *)
(* DOMAIN is its key set, a list is a sequence, a str is a string, None is *)
(* the value None below, an f-string is a concatenation of strings.        *)
(***************************************************************************)
EXTENDS Integers, Sequences, FiniteSets, TLC

VARIABLES
    action_rules,   \* action_rules[p]: the rule table of planner p (self.action_rules)
    call,           \* the arguments the caller passed to plan and still holds
    plan,           \* the list plan returned for call
    prev,           \* an earlier call and the list it returned, kept by the caller
    pc,             \* "idle", "called" (plan is running), "returned", "executed"
    score,          \* the last call of _calculate_priority and its outcome
    execution_log,  \* self.execution_log of the executor
    task_counter,   \* self.task_counter of the executor
    notification_counter,   \* self.notification_counter of the executor
    result,         \* the last call of execute and its outcome
    events,         \* the rows of the event table, in order of arrival
    priority_memory,    \* the table of create_priority_memory, by event type
    error_memory,   \* the table of create_error_memory, by error signature
    memory_state,   \* the table memory_state of build_pipeline, by event type
    output,         \* the rows a pipeline has put out, in order
    calls,          \* the calls of execute so far and how each ended, in order
    threads         \* threads[t]: the position and the locals of thread t in
                    \* _execute_create_task

planner_vars == <<action_rules, call, plan, prev, pc>>

executor_vars == <<execution_log, task_counter, notification_counter, result>>

memory_vars == <<events, priority_memory, error_memory>>

pipeline_vars == <<memory_state, output>>

client_vars == <<calls, threads>>

vars == <<planner_vars, score, executor_vars, memory_vars, pipeline_vars, client_vars>>

\* what the planner and its caller leave alone
other_vars == <<score, executor_vars, memory_vars, pipeline_vars, client_vars>>

---------------------------------------------------------------------------
(* Bounds of the model *)

MaxPriority == 11

MaxCount == 11

Planners == {1, 2}

Threads == {1, 2}

Priorities == (0 - 1) .. MaxPriority

Counts == 0 .. MaxCount

---------------------------------------------------------------------------
(* Python values *)

None == "<None>"

EmptyDict == [k \in {} |-> None]

\* bool(v) of a str or None
Truthy(v) == v /= None /\ v /= ""

\* d.get(k, default)
Get(d, k, default) == IF k \in DOMAIN d THEN d[k] ELSE default

\* a or b
Or(a, b) == IF Truthy(a) THEN a ELSE b

\* x in lst, for a list
InList(x, lst) == \E i \in 1 .. Len(lst) : lst[i] = x

\* f"{v}" of a str or None
Fmt(v) == IF v = None THEN "None" ELSE v

\* json.dumps(d): the serialised text of d, which determines d
json_dumps(d) == [json |-> d]

\* json.dumps(d)[:100]
json_dumps_100(d) == [json100 |-> d]

\* sub in s, over the strings of the model: the pairs <<sub, s>> with sub a
\* substring of s.lower() among the keywords the code searches for
SubstringPairs ==
    { <<"test", "test_failure">>,
      <<"test", "test_name">>,
      <<"test", "test_user_login">>,
      <<"dependency", "dependency_vulnerability">>,
      <<"config", "configuration_drift">>,
      <<"critical", "critical">>,
      <<"urgent", "URGENT: disk full">>,
      <<"blocker", "Release Blocker">>,
      <<"security", "security">>,
      <<"security", "Security patch">> }

Contains(sub, s) == <<sub, s>> \in SubstringPairs

\* sub in str(d).lower(): str(d) shows every key and every value of d
DictStrContains(sub, d) ==
    \E k \in DOMAIN d :
        \/ Contains(sub, k)
        \/ IF k = "affected_services"
           THEN \E i \in 1 .. Len(d[k]) : Contains(sub, d[k][i])
           ELSE Contains(sub, d[k])

---------------------------------------------------------------------------
(* Inputs *)

EventTypes ==
    { "error", "security_alert", "test_failure", "deployment", "code_review",
      "commit", "issue_created", "file_change" }

IssueTypes ==
    { "dependency_vulnerability", "formatting_error", "configuration_drift",
      "timeout", "" }

\* payloads carrying any of alert_type and error_type
IssuePayloads == UNION { [K -> IssueTypes] : K \in SUBSET {"alert_type", "error_type"} }

\* the payloads of test_standalone.py and test_agent.py
ScenarioPayloads ==
    { [message |-> "Database connection timeout", severity |-> "critical",
       service |-> "api-gateway"],
      [test_name |-> "test_user_login",
       error |-> "AssertionError: Expected 200, got 401", suite |-> "integration"],
      [alert_type |-> "dependency_vulnerability", severity |-> "high",
       details |-> "CVE-2024-1234 in lodash@4.17.0",
       affected_services |-> <<"frontend", "backend">>],
      [service |-> "user-service", environment |-> "production",
       version |-> "v2.3.1", status |-> "success"],
      [pr_id |-> "PR-7", issue_id |-> "ISSUE-3"] }

Payloads == IssuePayloads \cup ScenarioPayloads

Contexts == {EmptyDict} \cup { [event_count |-> c] : c \in Counts }

NoCall == [self |-> 0]

---------------------------------------------------------------------------
(* planner.py *)

\* ActionType
ActionType ==
    [ CREATE_TASK |-> "create_task", NOTIFY |-> "notify", ESCALATE |-> "escalate",
      SCHEDULE |-> "schedule", MONITOR |-> "monitor",
      BLOCK_DEPLOYMENT |-> "block_deployment", AGGREGATE |-> "aggregate",
      AUTO_FIX |-> "auto_fix", REQUEST_REVIEW |-> "request_review" ]

\* Action(type, priority, params, reasoning)
Action(type, priority, params, reasoning) ==
    [type |-> type, priority |-> priority, params |-> params, reasoning |-> reasoning]

\* lambda count: count >= n
LambdaGe(n) == [body |-> "count >= n", n |-> n]

\* lambda count: True, lambda count: False
LambdaConst(b) == [body |-> "constant", value |-> b]

\* f(count), for the lambdas of the rule table
ApplyLambda(f, count) == IF f.body = "count >= n" THEN count >= f.n ELSE f.value

\* a test_failure rule with threshold 5 instead of 6
rules_test_failure_threshold_5 ==
    [ priority_threshold |-> 5,
      actions |-> <<"create_task">>,
      escalation_condition |-> LambdaGe(5) ]

\* an error rule that escalates from the second occurrence on
rules_error_escalates_at_2 ==
    [ priority_threshold |-> 7,
      actions |-> <<"create_task", "notify">>,
      escalation_condition |-> LambdaGe(2) ]

\* a deployment rule that lists no monitor
rules_deployment_without_monitor ==
    [ priority_threshold |-> 5,
      actions |-> <<"create_task">>,
      escalation_condition |-> LambdaConst(FALSE) ]

\* the entries of the table _initialize_rules returns
rules_error ==
    [ priority_threshold |-> 7,
      actions |-> <<"create_task", "notify">>,
      escalation_condition |-> LambdaGe(3) ]

rules_security_alert ==
    [ priority_threshold |-> 0,
      actions |-> <<"create_task", "notify", "block_deployment">>,
      escalation_condition |-> LambdaConst(TRUE) ]

rules_test_failure ==
    [ priority_threshold |-> 6,
      actions |-> <<"create_task">>,
      escalation_condition |-> LambdaGe(5) ]

rules_deployment ==
    [ priority_threshold |-> 5,
      actions |-> <<"monitor", "create_task">>,
      escalation_condition |-> LambdaConst(FALSE) ]

rules_code_review ==
    [ priority_threshold |-> 6,
      actions |-> <<"schedule">>,
      escalation_condition |-> LambdaGe(10) ]

initialize_rules ==
    [ error |-> rules_error,
      security_alert |-> rules_security_alert,
      test_failure |-> rules_test_failure,
      deployment |-> rules_deployment,
      code_review |-> rules_code_review ]

\* an assignee chosen without the oncall_engineer fallback
determine_assignee_no_fallback(event_type, event_data) ==
    IF event_type = "security_alert" THEN "security_team"
    ELSE IF event_type = "deployment" THEN "devops_team"
    ELSE "qa_team"

determine_assignee(event_type, event_data) ==
    IF event_type = "security_alert" THEN "security_team"
    ELSE IF event_type = "deployment" THEN "devops_team"
    ELSE IF Contains("test", event_type) THEN "qa_team"
    ELSE "oncall_engineer"

plan_task_creation(event_type, event_data, priority) ==
    LET title_map ==
            [ error |-> "Fix: " \o Fmt(Get(event_data, "message", "Unknown error")),
              test_failure |-> "Test failed: " \o Fmt(Get(event_data, "test_name", "unknown")),
              security_alert |-> "Security: " \o Fmt(Get(event_data, "alert_type", "unknown")),
              deployment |->
                  "Verify deployment: " \o Fmt(Get(event_data, "service", "unknown")) ]
        priority_map ==
            [ p \in 5 .. 10 |->
                IF p >= 9 THEN "critical" ELSE IF p >= 7 THEN "high" ELSE "medium" ]
    IN  Action(ActionType.CREATE_TASK,
               Get(priority_map, priority, "low"),
               [ title |-> Get(title_map, event_type, "Handle " \o event_type),
                 description |-> json_dumps(event_data),
                 labels |-> <<event_type, "automated">>,
                 assignee |-> determine_assignee(event_type, event_data) ],
               "Event priority " \o ToString(priority) \o " requires task tracking")

\* the message is a sequence of text pieces; the leading emoji is left out
format_notification_message(event_type, event_data) ==
    IF event_type = "security_alert"
    THEN <<"Security Alert: " \o Fmt(Get(event_data, "alert_type", None))
           \o " - " \o Fmt(Get(event_data, "details", None))>>
    ELSE IF event_type = "error"
    THEN <<"Error: " \o Fmt(Get(event_data, "message", None))
           \o " in " \o Fmt(Get(event_data, "service", None))>>
    ELSE <<event_type \o ": ", json_dumps_100(event_data)>>

\* a notification that mentions oncall at every priority
plan_notification_always_mentions(event_type, event_data, priority) ==
    LET channel_map ==
            [ security_alert |-> "security",
              error |-> IF priority >= 9 THEN "urgent" ELSE "alerts",
              deployment |-> "deployments" ]
    IN  Action(ActionType.NOTIFY,
               IF priority >= 8 THEN "high" ELSE "medium",
               [ channel |-> Get(channel_map, event_type, "general"),
                 message |-> format_notification_message(event_type, event_data),
                 mention |-> "oncall" ],
               "High priority event (" \o ToString(priority)
               \o ") requires immediate notification")

plan_notification(event_type, event_data, priority) ==
    LET channel_map ==
            [ security_alert |-> "security",
              error |-> IF priority >= 9 THEN "urgent" ELSE "alerts",
              deployment |-> "deployments" ]
    IN  Action(ActionType.NOTIFY,
               IF priority >= 8 THEN "high" ELSE "medium",
               [ channel |-> Get(channel_map, event_type, "general"),
                 message |-> format_notification_message(event_type, event_data),
                 mention |-> IF priority >= 9 THEN "oncall" ELSE None ],
               "High priority event (" \o ToString(priority)
               \o ") requires immediate notification")

plan_escalation(event_type, event_data, event_count) ==
    Action(ActionType.ESCALATE,
           "high",
           [ reason |-> "Repeated " \o event_type \o " detected ("
                        \o ToString(event_count) \o " occurrences)",
             escalate_to |-> "engineering_manager",
             include_data |-> TRUE ],
           "Event count " \o ToString(event_count) \o " exceeds threshold")

plan_scheduling(event_type, event_data) ==
    Action(ActionType.SCHEDULE,
           "medium",
           [ activity |-> event_type,
             resource_id |-> Or(Get(event_data, "pr_id", None),
                                Get(event_data, "issue_id", None)),
             time_slot |-> "next_available",
             duration |-> "30m" ],
           "Scheduling required for code review workflow")

plan_monitoring(event_type, event_data) ==
    Action(ActionType.MONITOR,
           "medium",
           [ target |-> Get(event_data, "service", "unknown"),
             metrics |-> <<"error_rate", "latency", "cpu", "memory">>,
             duration |-> "30m",
             alert_threshold |-> "high" ],
           "Post-deployment monitoring required")

plan_deployment_block(event_type, event_data) ==
    Action(ActionType.BLOCK_DEPLOYMENT,
           "critical",
           [ reason |-> "Security alert: " \o Fmt(Get(event_data, "alert_type", None)),
             affected_services |-> Get(event_data, "affected_services", <<>>),
             until_resolved |-> TRUE ],
           "Security vulnerability requires deployment freeze")

plan_aggregation(event_type, event_data, event_count) ==
    Action(ActionType.AGGREGATE,
           "medium",
           [ action |-> "create_epic",
             event_type |-> event_type,
             count |-> event_count,
             title |-> "Recurring " \o event_type \o " pattern" ],
           "Multiple related events (" \o ToString(event_count)
           \o ") suggest larger issue")

identify_fix_type(event_data) ==
    IF DictStrContains("dependency", event_data) THEN "dependency_update"
    ELSE IF DictStrContains("config", event_data) THEN "config_correction"
    ELSE "generic_fix"

plan_auto_fix(event_type, event_data) ==
    Action(ActionType.AUTO_FIX,
           "high",
           [ fix_type |-> identify_fix_type(event_data),
             automatic |-> TRUE,
             create_pr |-> TRUE ],
           "Known issue with automated fix available")

\* an auto-fix test that looks at error_type first
can_auto_fix_error_type_first(event_type, event_data, event_count) ==
    LET auto_fixable ==
            [ dependency_vulnerability |-> TRUE,
              formatting_error |-> TRUE,
              configuration_drift |-> TRUE ]
        issue_type == Or(Get(event_data, "error_type", None),
                         Get(event_data, "alert_type", None))
    IN  Get(auto_fixable, issue_type, FALSE) /\ event_count >= 2

can_auto_fix(event_type, event_data, event_count) ==
    LET auto_fixable ==
            [ dependency_vulnerability |-> TRUE,
              formatting_error |-> TRUE,
              configuration_drift |-> TRUE ]
        issue_type == Or(Get(event_data, "alert_type", None),
                         Get(event_data, "error_type", None))
    IN  Get(auto_fixable, issue_type, FALSE) /\ event_count >= 2

\* a default plan that also notifies
default_plan_with_notify(event_type, event_data) ==
    << Action(ActionType.CREATE_TASK,
              "low",
              [ title |-> "Review " \o event_type,
                description |-> json_dumps(event_data),
                labels |-> <<event_type, "automated", "review">> ],
              "Unrecognized event type - creating task for review"),
       Action(ActionType.NOTIFY,
              "medium",
              [ channel |-> "general",
                message |-> <<event_type \o ": ", json_dumps_100(event_data)>>,
                mention |-> None ],
              "Unrecognized event type - notifying") >>

default_plan(event_type, event_data) ==
    << Action(ActionType.CREATE_TASK,
              "low",
              [ title |-> "Review " \o event_type,
                description |-> json_dumps(event_data),
                labels |-> <<event_type, "automated", "review">> ],
              "Unrecognized event type - creating task for review") >>

\* actions.insert(0, a) when cond holds
InsertFirstIf(cond, actions, a) == IF cond THEN <<a>> \o actions ELSE actions

\* actions.append(a) when cond holds
AppendIf(cond, actions, a) == IF cond THEN Append(actions, a) ELSE actions

\* AutonomousPlanner.plan, on a planner whose self.action_rules is rules_table
plan_(rules_table, event_type, event_data, priority, context) ==
    IF event_type \notin DOMAIN rules_table
    THEN default_plan(event_type, event_data)
    ELSE
    LET rules == rules_table[event_type] IN
    IF priority < rules.priority_threshold
    THEN <<>>
    ELSE
    LET event_count == Get(context, "event_count", 1)
        a0 == <<>>
        a1 == AppendIf(InList("create_task", rules.actions), a0,
                       plan_task_creation(event_type, event_data, priority))
        a2 == AppendIf(InList("notify", rules.actions) /\ priority >= 8, a1,
                       plan_notification(event_type, event_data, priority))
        a3 == AppendIf(InList("schedule", rules.actions), a2,
                       plan_scheduling(event_type, event_data))
        a4 == AppendIf(InList("monitor", rules.actions), a3,
                       plan_monitoring(event_type, event_data))
        a5 == AppendIf(InList("block_deployment", rules.actions), a4,
                       plan_deployment_block(event_type, event_data))
        a6 == AppendIf(ApplyLambda(rules.escalation_condition, event_count), a5,
                       plan_escalation(event_type, event_data, event_count))
        a7 == AppendIf(event_count >= 3 /\ event_type \in {"issue_created", "test_failure"},
                       a6, plan_aggregation(event_type, event_data, event_count))
        a8 == AppendIf(can_auto_fix(event_type, event_data, event_count), a7,
                       plan_auto_fix(event_type, event_data))
    IN  a8

---------------------------------------------------------------------------
(* The caller and the planner as a state machine *)

Init ==
    /\ action_rules = [p \in Planners |-> initialize_rules]
    /\ call = NoCall
    /\ plan = <<>>
    /\ prev = NoCall
    /\ pc = "idle"
    /\ score = [self |-> "none"]
    /\ execution_log = <<>>
    /\ task_counter = 0
    /\ notification_counter = 0
    /\ result = [self |-> "none"]
    /\ events = <<>>
    /\ priority_memory = EmptyDict
    /\ error_memory = EmptyDict
    /\ memory_state = EmptyDict
    /\ output = <<>>
    /\ calls = <<>>
    /\ threads = [t \in Threads |-> [pc |-> "idle", task_counter |-> 0, task_id |-> ""]]

\* the caller builds the arguments and calls plan on planner p
CallPlan(p, event_type, event_data, priority, context) ==
    /\ pc = "idle"
    /\ call' = [ self |-> p, event_type |-> event_type, event_data |-> event_data,
                 priority |-> priority, context |-> context ]
    /\ pc' = "called"
    /\ UNCHANGED <<action_rules, plan, prev, other_vars>>

\* plan runs to its return statement and removes from the rule of the event
\* type the action kinds it has handled
PlanReturnConsumingRule ==
    /\ pc = "called"
    /\ plan' = plan_(action_rules[call.self], call.event_type, call.event_data,
                     call.priority, call.context)
    /\ action_rules' =
          IF call.event_type \in DOMAIN action_rules[call.self]
          THEN [action_rules EXCEPT ![call.self][call.event_type].actions = <<>>]
          ELSE action_rules
    /\ pc' = "returned"
    /\ UNCHANGED <<call, prev, other_vars>>

\* plan runs to its return statement
PlanReturn ==
    /\ pc = "called"
    /\ plan' = plan_(action_rules[call.self], call.event_type, call.event_data,
                     call.priority, call.context)
    /\ pc' = "returned"
    /\ UNCHANGED <<action_rules, call, prev, other_vars>>

\* the caller drops the arguments and the returned list
Consume ==
    /\ pc = "returned"
    /\ call' = NoCall
    /\ plan' = <<>>
    /\ pc' = "idle"
    /\ UNCHANGED <<action_rules, prev, other_vars>>

\* any planner and any arguments
CallPlanAny ==
    /\ pc = "idle"
    /\ \E p \in Planners, event_type \in EventTypes, event_data \in Payloads,
          priority \in Priorities, context \in Contexts :
            CallPlan(p, event_type, event_data, priority, context)

Next ==
    \/ CallPlanAny
    \/ PlanReturn
    \/ Consume

Spec == Init /\ [][Next]_vars

---------------------------------------------------------------------------
(* A caller that compares the lists of two calls: the arguments are those  *)
(* of the repository's tests, so that the pairs of calls stay enumerable.  *)

PureEventTypes == {"error", "security_alert", "test_failure", "issue_created"}

PurePayloads ==
    { [message |-> "Database connection timeout", severity |-> "critical",
       service |-> "api-gateway"],
      [alert_type |-> "dependency_vulnerability", severity |-> "high",
       details |-> "CVE-2024-1234 in lodash@4.17.0",
       affected_services |-> <<"frontend", "backend">>],
      [error_type |-> "formatting_error"] }

PurePriorities == {6, 8, 10}

PureContexts == {EmptyDict, [event_count |-> 3], [event_count |-> 5]}

CallPlanScenario ==
    /\ pc = "idle"
    /\ \E p \in Planners, event_type \in PureEventTypes, event_data \in PurePayloads,
          priority \in PurePriorities, context \in PureContexts :
            CallPlan(p, event_type, event_data, priority, context)

\* the caller keeps the arguments and the returned list for a later comparison
Remember ==
    /\ pc = "returned"
    /\ prev' = [ self |-> call.self, event_type |-> call.event_type,
                 event_data |-> call.event_data, priority |-> call.priority,
                 context |-> call.context, plan |-> plan ]
    /\ call' = NoCall
    /\ plan' = <<>>
    /\ pc' = "idle"
    /\ UNCHANGED <<action_rules, other_vars>>

NextPure ==
    \/ CallPlanScenario
    \/ PlanReturn
    \/ Consume
    \/ Remember

SpecPure == Init /\ [][NextPure]_vars

---------------------------------------------------------------------------
(* What the specification says of plan, stated without the rule table of   *)
(* the model.                                                              *)

\* the documented priority threshold of each event type that has a rule entry
DocThreshold ==
    [ error |-> 7, security_alert |-> 0, test_failure |-> 6, deployment |-> 5,
      code_review |-> 6 ]

\* the documented core action kinds of each such type, and whether it notifies
DocCoreKinds ==
    [ error |-> {"create_task"},
      security_alert |-> {"create_task", "block_deployment"},
      test_failure |-> {"create_task"},
      deployment |-> {"monitor", "create_task"},
      code_review |-> {"schedule"} ]

DocNotifies == {"error", "security_alert"}

\* the documented escalation predicate of each such type
DocEscalates(event_type, count) ==
    CASE event_type = "error" -> count >= 3
      [] event_type = "test_failure" -> count >= 5
      [] event_type = "security_alert" -> TRUE
      [] event_type = "deployment" -> FALSE
      [] event_type = "code_review" -> count >= 10

DocAutoFixable == {"dependency_vulnerability", "formatting_error", "configuration_drift"}

DocKindOrder ==
    << "create_task", "notify", "schedule", "monitor", "block_deployment",
       "escalate", "aggregate", "auto_fix" >>

\* the position of kind in the documented order
Rank(kind) == CHOOSE i \in 1 .. Len(DocKindOrder) : DocKindOrder[i] = kind

Returned == pc = "returned"

HasRule == call.event_type \in DOMAIN DocThreshold

\* plan went past the threshold check of a type that has a rule entry
Active == Returned /\ HasRule /\ call.priority >= DocThreshold[call.event_type]

\* the count of the call: a context without event_count stands for a first occurrence
CallCount ==
    IF "event_count" \in DOMAIN call.context THEN call.context.event_count ELSE 1

\* the actions of the returned list that have the given kind
OfKind(kind) == { i \in 1 .. Len(plan) : plan[i].type = kind }

Has(kind) == OfKind(kind) /= {}

PayloadField(k) == IF k \in DOMAIN call.event_data THEN call.event_data[k] ELSE None

---------------------------------------------------------------------------

\* C1: for a type with a rule entry and a priority strictly below the type's
\* documented threshold, plan returns the empty list, whatever the payload and
\* the count.
C1_BelowThresholdEmpty ==
    (Returned /\ HasRule /\ call.priority < DocThreshold[call.event_type])
        => plan = <<>>

\* a security_alert of priority -1, seen 3 times, with an auto-fixable alert type
C1_Witness ==
    /\ Returned
    /\ call.event_type = "security_alert"
    /\ call.priority < 0
    /\ CallCount >= 3
    /\ PayloadField("alert_type") = "dependency_vulnerability"
    /\ plan = <<>>

\* C2: past the threshold, the plan holds an escalate action exactly when the
\* type's documented escalation predicate holds of the count, and an escalate
\* action is directed at engineering_manager.
C2_EscalateIffPredicate ==
    Active =>
        /\ Has("escalate") <=> DocEscalates(call.event_type, CallCount)
        /\ \A i \in OfKind("escalate") : plan[i].params.escalate_to = "engineering_manager"

\* an error seen 3 times escalates
C2_Witness ==
    /\ Active
    /\ call.event_type = "error"
    /\ CallCount = 3
    /\ Has("escalate")

\* C3: for a type with no rule entry the plan is one create_task of severity
\* low labelled review, whatever the priority, the payload and the count.
C3_DefaultPlan ==
    (Returned /\ ~HasRule) =>
        /\ Len(plan) = 1
        /\ plan[1].type = "create_task"
        /\ plan[1].priority = "low"
        /\ InList("review", plan[1].params.labels)

\* an issue_created of priority 0, seen 3 times, with an auto-fixable error type
C3_Witness ==
    /\ Returned
    /\ call.event_type = "issue_created"
    /\ call.priority = 0
    /\ CallCount >= 3
    /\ PayloadField("error_type") = "formatting_error"
    /\ Len(plan) = 1

\* C4: past the threshold, each of create_task, schedule, monitor and
\* block_deployment occurs exactly once when the type's rule set lists it and
\* not at all otherwise; a security_alert yields create_task, block_deployment
\* and escalate, a deployment yields monitor and create_task.
C4_CoreKinds ==
    Active =>
        /\ \A kind \in {"create_task", "schedule", "monitor", "block_deployment"} :
              Cardinality(OfKind(kind)) =
                  IF kind \in DocCoreKinds[call.event_type] THEN 1 ELSE 0
        /\ call.event_type = "security_alert"
              => Has("create_task") /\ Has("block_deployment") /\ Has("escalate")
        /\ call.event_type = "deployment" => Has("monitor") /\ Has("create_task")

\* a deployment of priority 5 without a count
C4_Witness ==
    /\ Active
    /\ call.event_type = "deployment"
    /\ call.priority = 5
    /\ call.context = EmptyDict
    /\ Has("monitor")
    /\ Has("create_task")

\* C5: past the threshold, the plan holds a notify action exactly when the
\* type notifies and the priority is at least 8; its channel is security for a
\* security_alert and, for an error, urgent from priority 9 on and alerts below;
\* its mention is oncall from priority 9 on and None below.
C5_Notify ==
    Active =>
        /\ Has("notify") <=> (call.event_type \in DocNotifies /\ call.priority >= 8)
        /\ \A i \in OfKind("notify") :
              /\ call.event_type = "security_alert" => plan[i].params.channel = "security"
              /\ call.event_type = "error" =>
                    plan[i].params.channel =
                        IF call.priority >= 9 THEN "urgent" ELSE "alerts"
              /\ plan[i].params.mention = IF call.priority >= 9 THEN "oncall" ELSE None

\* an error of priority 8: notified on alerts, nobody mentioned
C5_Witness ==
    /\ Active
    /\ call.event_type = "error"
    /\ call.priority = 8
    /\ \E i \in OfKind("notify") :
          plan[i].params.channel = "alerts" /\ plan[i].params.mention = None

\* C6: with a count of at least 3, an issue_created or a test_failure (past its
\* threshold, when it has a rule entry) gets an aggregate action that proposes
\* an epic and carries the event type and the count.
C6_AggregateRecurring ==
    (/\ Returned
     /\ CallCount >= 3
     /\ call.event_type \in {"issue_created", "test_failure"}
     /\ HasRule => call.priority >= DocThreshold[call.event_type])
        => \E i \in OfKind("aggregate") :
              /\ plan[i].params.action = "create_epic"
              /\ plan[i].params.event_type = call.event_type
              /\ plan[i].params.count = CallCount

\* C7 as stated: past the threshold, the plan holds an auto_fix action exactly
\* when the count is at least 2 and the alert_type or the error_type of the
\* payload is auto-fixable.
C7_AutoFixEitherField ==
    Active =>
        (Has("auto_fix") <=>
            /\ CallCount >= 2
            /\ \/ PayloadField("alert_type") \in DocAutoFixable
               \/ PayloadField("error_type") \in DocAutoFixable)

\* C7 amended: past the threshold, the plan holds an auto_fix action exactly
\* when the count is at least 2 and the payload's issue type is auto-fixable,
\* the issue type being alert_type when it is present and not empty and
\* error_type otherwise; the action is automatic and creates a pull request.
C7_AutoFixFirstField ==
    Active =>
        /\ Has("auto_fix") <=>
              /\ CallCount >= 2
              /\ (IF PayloadField("alert_type") \notin {None, ""}
                  THEN PayloadField("alert_type")
                  ELSE PayloadField("error_type")) \in DocAutoFixable
        /\ \A i \in OfKind("auto_fix") :
              plan[i].params.automatic = TRUE /\ plan[i].params.create_pr = TRUE

\* a second error whose alert_type is not auto-fixable and whose error_type is:
\* no auto_fix
C7_Witness ==
    /\ Active
    /\ call.event_type = "error"
    /\ CallCount = 2
    /\ PayloadField("alert_type") = "timeout"
    /\ PayloadField("error_type") = "formatting_error"
    /\ ~Has("auto_fix")

\* C8: the kinds of a plan follow the documented order create_task, notify,
\* schedule, monitor, block_deployment, escalate, aggregate, auto_fix, each
\* kind at most once.
C8_KindOrder ==
    Returned =>
        /\ \A i \in 1 .. Len(plan) : InList(plan[i].type, DocKindOrder)
        /\ \A i, j \in 1 .. Len(plan) :
              i < j => Rank(plan[i].type) < Rank(plan[j].type)

\* a deployment, whose rule set lists monitor before create_task, with an
\* auto_fix; and a test_failure with escalate, aggregate and auto_fix
C8_Witness ==
    /\ Returned
    /\ \/ /\ call.event_type = "deployment"
          /\ Len(plan) = 3
          /\ plan[1].type = "create_task"
          /\ plan[2].type = "monitor"
          /\ plan[3].type = "auto_fix"
       \/ /\ call.event_type = "test_failure"
          /\ Len(plan) = 4
          /\ plan[4].type = "auto_fix"

SameArguments(a, b) ==
    /\ a.event_type = b.event_type
    /\ a.event_data = b.event_data
    /\ a.priority = b.priority
    /\ a.context = b.context

C10_CriticalError ==
    (/\ Returned
     /\ call.event_type = "error"
     /\ call.priority \in {9, 10}
     /\ CallCount < 3)
        => /\ \E i \in OfKind("create_task") :
                 /\ plan[i].priority = "critical"
                 /\ plan[i].params.assignee = "oncall_engineer"
           /\ \E i \in OfKind("notify") :
                 /\ plan[i].params.channel = "urgent"
                 /\ plan[i].params.mention = "oncall"
           /\ ~Has("escalate")

\* the first error of priority 10 with the payload of the critical-error test
C10_Witness ==
    /\ Returned
    /\ call.event_type = "error"
    /\ call.priority = 10
    /\ CallCount = 1
    /\ PayloadField("service") = "api-gateway"
    /\ Len(plan) = 2

---------------------------------------------------------------------------
(* agent_simple.py and agent.py: _calculate_priority                       *)
(*                                                                         *)
(* The column data of an event is a str.  A str that json.loads accepts is *)
(* json_dumps(d) of the mapping d it parses to; any other str is modelled  *)
(* by a record without the field json.  The outcome of a call is a record  *)
(* saying whether an exception left the function, and the value returned.  *)

Min(a, b) == IF a <= b THEN a ELSE b

Returns(v) == [raised |-> FALSE, value |-> v]

Raises(e) == [raised |-> TRUE, error |-> e]

\* whether json.loads(data) returns
json_parses(data) == "json" \in DOMAIN data

\* json.loads(data), of a str it accepts
json_loads(data) == data.json

\* priority_map, the same table in both orchestrators
priority_map ==
    [ error |-> 10, security_alert |-> 10, test_failure |-> 8, deployment |-> 7,
      code_review |-> 6, commit |-> 5, issue_created |-> 4, file_change |-> 3 ]

\* the keywords whose presence in the payload raises the priority
urgent_keywords == {"critical", "urgent", "blocker", "security"}

\* base_priority = base_priority + 3, without the upper limit
boost_unbounded(base_priority) == base_priority + 3

\* base_priority = min(10, base_priority + 3)
boost(base_priority) == Min(10, base_priority + 3)

\* the statements of _calculate_priority after data_dict is bound
priority_of(event_type, data_dict) ==
    LET base_priority == Get(priority_map, event_type, 5)
    IN  IF \E keyword \in urgent_keywords : DictStrContains(keyword, data_dict)
        THEN boost(base_priority)
        ELSE base_priority

\* AgenticSystem._calculate_priority of agent_simple.py
agent_simple_calculate_priority(event_type, data) ==
    LET data_dict == IF json_parses(data) THEN json_loads(data) ELSE EmptyDict
    IN  Returns(priority_of(event_type, data_dict))

\* AgenticSystem._calculate_priority of agent.py
agent_calculate_priority(event_type, data) ==
    IF json_parses(data)
    THEN Returns(priority_of(event_type, json_loads(data)))
    ELSE Raises("JSONDecodeError")

Orchestrators == {"agent_simple", "agent"}

calculate_priority(self, event_type, data) ==
    IF self = "agent_simple"
    THEN agent_simple_calculate_priority(event_type, data)
    ELSE agent_calculate_priority(event_type, data)

\* the event types of the stream: those of the table and one outside it
ScoreEventTypes == EventTypes \cup {"build_started"}

ScorePayloads ==
    ScenarioPayloads \cup
    { EmptyDict,
      [message |-> "URGENT: disk full"],
      [message |-> "Release Blocker"],
      [message |-> "Security patch"],
      [security |-> "scan"],
      [title |-> "Fix typo"] }

\* texts that json.loads rejects
Unparsable == { [text |-> "not json"], [text |-> ""] }

RawData == { json_dumps(d) : d \in ScorePayloads } \cup Unparsable

\* the pipeline applies _calculate_priority to the columns of an event
CalculatePriority(self, event_type, data) ==
    /\ score' = [ self |-> self, event_type |-> event_type, data |-> data,
                  outcome |-> calculate_priority(self, event_type, data) ]
    /\ UNCHANGED <<planner_vars, executor_vars, memory_vars, pipeline_vars, client_vars>>

NextScore ==
    \E self \in Orchestrators, event_type \in ScoreEventTypes, data \in RawData :
        CalculatePriority(self, event_type, data)

SpecScore == Init /\ [][NextScore]_vars

---------------------------------------------------------------------------
(* What the specification says of the priority score.                      *)

\* the documented base priority of each event type
DocBasePriority ==
    [ error |-> 10, security_alert |-> 10, test_failure |-> 8, deployment |-> 7,
      code_review |-> 6, commit |-> 5, issue_created |-> 4, file_change |-> 3 ]

DocBase(event_type) ==
    IF event_type \in DOMAIN DocBasePriority THEN DocBasePriority[event_type] ELSE 5

\* the payloads of the model whose text holds one of the four keywords,
\* whatever the case of its letters
DocKeywordTexts ==
    {"critical", "security", "URGENT: disk full", "Release Blocker", "Security patch"}

DocBoosted ==
    { d \in ScorePayloads :
        \E k \in DOMAIN d :
            \/ k \in DocKeywordTexts
            \/ IF k = "affected_services"
               THEN \E i \in 1 .. Len(d[k]) : d[k][i] \in DocKeywordTexts
               ELSE d[k] \in DocKeywordTexts }

DocBoost(data) == IF json_parses(data) /\ data.json \in DocBoosted THEN 3 ELSE 0

Scored == score.self /= "none"

\* C11: a score that is returned is min(10, base + boost), base from the
\* documented table (5 for any other type) and boost 3 when the payload
\* text holds critical, urgent, blocker or security in any case, else 0;
\* so it is an integer from 0 to 10
C11_ScoreFormula ==
    (Scored /\ ~score.outcome.raised) =>
        /\ score.outcome.value = Min(10, DocBase(score.event_type) + DocBoost(score.data))
        /\ score.outcome.value \in 0 .. 10

\* a boosted score that the limit of 10 cuts, returned by either orchestrator
C11_Witness ==
    /\ Scored
    /\ ~score.outcome.raised
    /\ DocBoost(score.data) = 3
    /\ DocBase(score.event_type) + 3 > 10
    /\ score.outcome.value = 10

\* C12: scoring an event whose payload does not parse never fails, in either
\* orchestrator: the base priority of the event type is returned
C12_UnparsableScoresBase ==
    (Scored /\ ~json_parses(score.data)) =>
        /\ ~score.outcome.raised
        /\ score.outcome.value = DocBase(score.event_type)

---------------------------------------------------------------------------
(* executor.py: ActionExecutor                                             *)
(*                                                                         *)
(* An action is a dict.  A value that is no dict (a JSON string in a list  *)
(* of actions) is modelled by a record with the single field py_str, and a *)
(* value of the key type that is a list, which no dict accepts as a key,   *)
(* by the text ListValue.  A list is a sequence of str, in which None      *)
(* stands for an item that is no str.  The fields of a result that hold a  *)
(* clock reading or a random number (created_at, escalation_id, ...) are   *)
(* left out: no statement of the executor reads them.                      *)

ListValue == "<list>"

\* whether action has the method get
is_dict(action) == "py_str" \notin DOMAIN action

\* whether hash(v) returns, which a lookup of v in a dict needs
hashable(v) == v /= ListValue

\* whether ', '.join(lst) raises TypeError
join_raises(lst) == \E i \in 1 .. Len(lst) : lst[i] = None

\* f"{n:04d}"
fmt_04d(n) ==
    IF n < 10 THEN "000" \o ToString(n)
    ELSE IF n < 100 THEN "00" \o ToString(n)
    ELSE IF n < 1000 THEN "0" \o ToString(n)
    ELSE ToString(n)

\* what a handler leaves behind: the two counters and its outcome
Handled(task_counter_, notification_counter_, outcome) ==
    [ task_counter |-> task_counter_, notification_counter |-> notification_counter_,
      outcome |-> outcome ]

\* _execute_create_task that numbers the task without counting it
execute_create_task_uncounted(self, action) ==
    LET labels == Get(action, "labels", <<>>)
    IN  IF join_raises(labels)
        THEN Handled(self.task_counter, self.notification_counter,
                     Raises("sequence item: expected str instance"))
        ELSE Handled(self.task_counter, self.notification_counter,
                     Returns([ status |-> "success",
                               task_id |-> "TASK-" \o fmt_04d(self.task_counter),
                               title |-> Get(action, "title", "Untitled Task"),
                               priority |-> Get(action, "priority", "medium"),
                               assignee |-> Get(action, "assignee", "unassigned") ]))

\* _execute_create_task
execute_create_task(self, action) ==
    LET counter == self.task_counter + 1
        task_id == "TASK-" \o fmt_04d(counter)
        title == Get(action, "title", "Untitled Task")
        priority == Get(action, "priority", "medium")
        labels == Get(action, "labels", <<>>)
        assignee == Get(action, "assignee", "unassigned")
    IN  IF join_raises(labels)
        THEN Handled(counter, self.notification_counter,
                     Raises("sequence item: expected str instance"))
        ELSE Handled(counter, self.notification_counter,
                     Returns([ status |-> "success", task_id |-> task_id, title |-> title,
                               priority |-> priority, assignee |-> assignee ]))

\* _execute_notify
execute_notify(self, action) ==
    LET counter == self.notification_counter + 1
        channel == Get(action, "channel", "general")
    IN  Handled(self.task_counter, counter,
                Returns([ status |-> "success", channel |-> channel,
                          message_id |-> "MSG-" \o fmt_04d(counter) ]))

\* _execute_escalate
execute_escalate(self, action) ==
    Handled(self.task_counter, self.notification_counter,
            Returns([ status |-> "success",
                      escalated_to |-> Get(action, "escalate_to", "manager"),
                      reason |-> Get(action, "reason", "Unknown") ]))

\* _execute_schedule
execute_schedule(self, action) ==
    Handled(self.task_counter, self.notification_counter,
            Returns([ status |-> "success",
                      activity |-> Get(action, "activity", "task"),
                      resource_id |-> Get(action, "resource_id", "unknown"),
                      scheduled_time |-> Get(action, "time_slot", "next_available"),
                      duration |-> Get(action, "duration", "30m") ]))

\* _execute_monitor
execute_monitor(self, action) ==
    LET metrics == Get(action, "metrics", <<>>)
    IN  IF join_raises(metrics)
        THEN Handled(self.task_counter, self.notification_counter,
                     Raises("sequence item: expected str instance"))
        ELSE Handled(self.task_counter, self.notification_counter,
                     Returns([ status |-> "success",
                               target |-> Get(action, "target", "unknown"),
                               metrics |-> metrics,
                               duration |-> Get(action, "duration", "30m") ]))

\* _execute_block_deployment
execute_block_deployment(self, action) ==
    LET affected_services == Get(action, "affected_services", <<>>)
    IN  IF join_raises(affected_services)
        THEN Handled(self.task_counter, self.notification_counter,
                     Raises("sequence item: expected str instance"))
        ELSE Handled(self.task_counter, self.notification_counter,
                     Returns([ status |-> "success", blocked |-> TRUE,
                               reason |-> Get(action, "reason", "Unknown"),
                               affected_services |-> affected_services ]))

\* _execute_aggregate
execute_aggregate(self, action) ==
    Handled(self.task_counter, self.notification_counter,
            Returns([ status |-> "success",
                      action |-> Get(action, "action", "group"),
                      event_type |-> Get(action, "event_type", "unknown"),
                      count |-> Get(action, "count", 0) ]))

\* _execute_auto_fix
execute_auto_fix(self, action) ==
    Handled(self.task_counter, self.notification_counter,
            Returns([ status |-> "success",
                      fix_type |-> Get(action, "fix_type", "generic"),
                      pr_created |-> Get(action, "create_pr", FALSE) ]))

\* _execute_request_review
execute_request_review(self, action) ==
    LET reviewers == Get(action, "reviewers", <<>>)
    IN  IF join_raises(reviewers)
        THEN Handled(self.task_counter, self.notification_counter,
                     Raises("sequence item: expected str instance"))
        ELSE Handled(self.task_counter, self.notification_counter,
                     Returns([ status |-> "success",
                               resource_id |-> Get(action, "resource_id", "unknown"),
                               reviewers |-> reviewers ]))

\* _execute_unknown
execute_unknown(self, action) ==
    LET action_type == Get(action, "type", "unknown")
    IN  Handled(self.task_counter, self.notification_counter,
                Returns([ status |-> "skipped",
                          reason |-> "Unknown action type: " \o Fmt(action_type) ]))

\* a table of handlers that lacks those of auto_fix and request_review
executors_without_auto_fix ==
    [ create_task |-> "_execute_create_task", notify |-> "_execute_notify",
      escalate |-> "_execute_escalate", schedule |-> "_execute_schedule",
      monitor |-> "_execute_monitor", block_deployment |-> "_execute_block_deployment",
      aggregate |-> "_execute_aggregate" ]

\* the dict executors of execute: the handler of each action type
executors ==
    [ create_task |-> "_execute_create_task", notify |-> "_execute_notify",
      escalate |-> "_execute_escalate", schedule |-> "_execute_schedule",
      monitor |-> "_execute_monitor", block_deployment |-> "_execute_block_deployment",
      aggregate |-> "_execute_aggregate", auto_fix |-> "_execute_auto_fix",
      request_review |-> "_execute_request_review" ]

\* executor(action), for the bound method named executor
call_executor(executor, self, action) ==
    CASE executor = "_execute_create_task" -> execute_create_task(self, action)
      [] executor = "_execute_notify" -> execute_notify(self, action)
      [] executor = "_execute_escalate" -> execute_escalate(self, action)
      [] executor = "_execute_schedule" -> execute_schedule(self, action)
      [] executor = "_execute_monitor" -> execute_monitor(self, action)
      [] executor = "_execute_block_deployment" -> execute_block_deployment(self, action)
      [] executor = "_execute_aggregate" -> execute_aggregate(self, action)
      [] executor = "_execute_auto_fix" -> execute_auto_fix(self, action)
      [] executor = "_execute_request_review" -> execute_request_review(self, action)
      [] OTHER -> execute_unknown(self, action)

\* _log_execution: the entry appended to the log
log_entry(action, result_, status) ==
    [action |-> action, result |-> result_, status |-> status]

\* the executor after a call of execute, and the outcome of the call
Executed(execution_log_, task_counter_, notification_counter_, outcome) ==
    [ execution_log |-> execution_log_, task_counter |-> task_counter_,
      notification_counter |-> notification_counter_, outcome |-> outcome ]

\* the try statement of execute, once the handler has run to h
log_and_return(self, action, h) ==
    IF h.outcome.raised
    THEN LET error_result == [status |-> "failed", error |-> h.outcome.error]
         IN  Executed(Append(self.execution_log,
                             log_entry(action, error_result, "failed")),
                      h.task_counter, h.notification_counter, Returns(error_result))
    ELSE Executed(Append(self.execution_log,
                         log_entry(action, h.outcome.value, "success")),
                  h.task_counter, h.notification_counter, h.outcome)

\* the handler execute selects for action_type
select_executor(action_type) == Get(executors, action_type, "_execute_unknown")

\* execute(action) on the executor self
execute(self, action) ==
    IF ~is_dict(action)
    THEN Executed(self.execution_log, self.task_counter, self.notification_counter,
                  Raises("AttributeError"))
    ELSE IF ~hashable(Get(action, "type", None))
    THEN Executed(self.execution_log, self.task_counter, self.notification_counter,
                  Raises("TypeError: unhashable type"))
    ELSE log_and_return(self, action,
                        call_executor(select_executor(Get(action, "type", None)),
                                      self, action))

---------------------------------------------------------------------------
(* The executor and its caller as a state machine *)

MaxExec == 3

\* the actions of the planner's kinds, as _plan_actions flattens them, and
\* actions as a reviewer's adjustments can hold them: without a type, of a
\* type outside the table, with a list as the type, with a list holding an
\* item that is no str, and a value that is no dict
ExecActions ==
    { [type |-> "create_task", priority |-> "high", title |-> "Fix error",
       labels |-> <<"error", "auto-generated">>, assignee |-> "oncall-engineer"],
      [type |-> "create_task"],
      [type |-> "create_task", title |-> "Fix error", labels |-> <<"error", None>>],
      [type |-> "notify", priority |-> "high", channel |-> "alerts",
       message |-> "deployment failed", mention |-> "oncall"],
      [type |-> "notify"],
      [type |-> "escalate", reason |-> "repeated error", escalate_to |-> "team_lead"],
      [type |-> "schedule", activity |-> "code_review", resource_id |-> "PR-7"],
      [type |-> "monitor", target |-> "user-service", metrics |-> <<"error_rate">>],
      [type |-> "monitor", metrics |-> <<None>>],
      [type |-> "block_deployment", reason |-> "security",
       affected_services |-> <<"frontend", "backend">>],
      [type |-> "aggregate", action |-> "create_epic", event_type |-> "test_failure",
       count |-> 3],
      [type |-> "auto_fix", fix_type |-> "dependency_update", create_pr |-> TRUE],
      [type |-> "request_review", resource_id |-> "PR-7", reviewers |-> <<"alice">>],
      [type |-> "deploy_rocket"],
      [type |-> None],
      [title |-> "Fix error"],
      [type |-> ListValue, title |-> "Fix error"],
      [py_str |-> "create_task"] }

\* the caller calls execute(action) and holds what the call gives
Execute(action) ==
    LET self == [ execution_log |-> execution_log, task_counter |-> task_counter,
                  notification_counter |-> notification_counter ]
        e == execute(self, action)
    IN  /\ execution_log' = e.execution_log
        /\ task_counter' = e.task_counter
        /\ notification_counter' = e.notification_counter
        /\ result' = [self |-> "executor", action |-> action, outcome |-> e.outcome]
        /\ UNCHANGED <<planner_vars, score, memory_vars, pipeline_vars, client_vars>>

ExecuteAny ==
    /\ Len(execution_log) < MaxExec
    /\ \E action \in ExecActions : Execute(action)

NextExec == ExecuteAny

SpecExec == Init /\ [][NextExec]_vars

---------------------------------------------------------------------------
(* What the specification says of the executor.                            *)

DocStatuses == {"success", "failed", "skipped"}

DocKnownKinds ==
    { "create_task", "notify", "escalate", "schedule", "monitor",
      "block_deployment", "aggregate", "auto_fix", "request_review" }

\* execute has been called
ExecuteCalled == result.self = "executor"

\* the type of an action is one of the nine known kinds
DocKnown(action) == "type" \in DOMAIN action /\ action.type \in DocKnownKinds

\* C18: no call of execute lets an exception out, whatever the action, and
\* the result of every call has status success, failed or skipped
C18_ExecuteNeverRaises ==
    ExecuteCalled =>
        /\ ~result.outcome.raised
        /\ result.outcome.value.status \in DocStatuses

\* C19: a call of execute with an action (a dict) whose type is missing or is
\* none of the nine known kinds returns status skipped and leaves
\* task_counter and notification_counter as they were
C19_UnknownSkipped ==
    [][ (result'.self = "executor" /\ is_dict(result'.action)
            /\ ~DocKnown(result'.action)) =>
            /\ ~result'.outcome.raised
            /\ result'.outcome.value.status = "skipped"
            /\ task_counter' = task_counter
            /\ notification_counter' = notification_counter ]_vars

\* the task_id values and the message_id values the log holds, by position
TaskIdAt(i) == execution_log[i].result.task_id

HasTaskId(i) == "task_id" \in DOMAIN execution_log[i].result

MessageIdAt(i) == execution_log[i].result.message_id

HasMessageId(i) == "message_id" \in DOMAIN execution_log[i].result

\* C20: the task_id values of the create_task executions are pairwise
\* distinct and so are the message_id values of the notify executions,
\* whatever was executed in between
C20_IdsDistinct ==
    \A i, j \in 1 .. Len(execution_log) :
        i /= j =>
            /\ (HasTaskId(i) /\ HasTaskId(j)) => TaskIdAt(i) /= TaskIdAt(j)
            /\ (HasMessageId(i) /\ HasMessageId(j)) => MessageIdAt(i) /= MessageIdAt(j)

\* two tasks created with a failed create_task and another kind in between
C20_Witness ==
    /\ Len(execution_log) = 3
    /\ HasTaskId(1)
    /\ execution_log[2].status = "failed"
    /\ execution_log[2].action.type = "create_task"
    /\ HasTaskId(3)
    /\ TaskIdAt(1) = "TASK-0001"
    /\ TaskIdAt(3) = "TASK-0003"

---------------------------------------------------------------------------
(* memory.py: AgentMemory                                                  *)
(*                                                                         *)
(* A Pathway table is modelled by the sequence of its rows in order of     *)
(* arrival, and a grouped and reduced table by a function from the group   *)
(* key to the reduced row: the table holds one row for each key that has   *)
(* at least one row in its input, computed from all the rows of the key.   *)
(* In the payloads of error events a str is a sequence of one-character    *)
(* strings, so that split, slicing and join work on its characters.        *)

\* the rows of a table that pass a test, as their positions
Positions(table) == 1 .. Len(table)

\* pw.reducers.count()
reducers_count(values) == Len(values)

RECURSIVE reducers_min(_)
\* the least value of a group, in place of the greatest
reducers_min(values) ==
    IF Len(values) = 1 THEN values[1]
    ELSE Min(values[1], reducers_min(Tail(values)))

RECURSIVE reducers_max(_)
\* pw.reducers.max(column)
reducers_max(values) ==
    IF Len(values) = 1 THEN values[1]
    ELSE LET m == reducers_max(Tail(values))
         IN  IF values[1] >= m THEN values[1] ELSE m

RECURSIVE Sum(_)
Sum(values) == IF values = <<>> THEN 0 ELSE values[1] + Sum(Tail(values))

\* pw.reducers.avg(column): the quotient sum / count, kept as its two terms
reducers_avg(values) == [sum |-> Sum(values), count |-> Len(values)]

\* pw.reducers.earliest(column), pw.reducers.latest(column)
reducers_earliest(values) == values[1]

reducers_latest(values) == values[Len(values)]

\* the column priority of the rows of a table
PriorityColumn(table) == [i \in Positions(table) |-> table[i].priority]

TimestampColumn(table) == [i \in Positions(table) |-> table[i].timestamp]

\* create_priority_memory that keeps the events above priority 7 only
create_priority_memory_above_7(table) ==
    LET IsHigh(e) == e.priority > 7
        high_priority_events == SelectSeq(table, IsHigh)
        keys == { high_priority_events[i].event_type : i \in Positions(high_priority_events) }
    IN  [ k \in keys |->
            LET InGroup(e) == e.event_type = k
                group == PriorityColumn(SelectSeq(high_priority_events, InGroup))
            IN  [ event_type |-> k,
                  urgent_count |-> reducers_count(group),
                  max_priority |-> reducers_max(group),
                  avg_priority |-> reducers_avg(group) ] ]

\* create_priority_memory(events)
create_priority_memory(table) ==
    LET IsHigh(e) == e.priority >= 7
        high_priority_events == SelectSeq(table, IsHigh)
        keys == { high_priority_events[i].event_type : i \in Positions(high_priority_events) }
    IN  [ k \in keys |->
            LET InGroup(e) == e.event_type = k
                group == PriorityColumn(SelectSeq(high_priority_events, InGroup))
            IN  [ event_type |-> k,
                  urgent_count |-> reducers_count(group),
                  max_priority |-> reducers_max(group),
                  avg_priority |-> reducers_avg(group) ] ]

\* the length of the message prefix that stands for the message
SignaturePrefixLen == 50

\* sep in s, for a one-character sep
InStr(sep, s) == \E i \in 1 .. Len(s) : s[i] = sep

RECURSIVE split(_, _)
\* s.split(sep), for a one-character sep
split(s, sep) ==
    IF ~InStr(sep, s) THEN <<s>>
    ELSE LET i == CHOOSE j \in 1 .. Len(s) :
                    s[j] = sep /\ \A k \in 1 .. (j - 1) : s[k] /= sep
         IN  <<SubSeq(s, 1, i - 1)>> \o split(SubSeq(s, i + 1, Len(s)), sep)

\* s[:n]
slice_to(s, n) == SubSeq(s, 1, Min(n, Len(s)))

RECURSIVE join(_, _)
\* sep.join(parts)
join(sep, parts) ==
    IF parts = <<>> THEN <<>>
    ELSE IF Len(parts) = 1 THEN parts[1]
    ELSE parts[1] \o sep \o join(sep, Tail(parts))

\* the str 'unknown'
unknown == <<"u", "n", "k", "n", "o", "w", "n">>

\* _extract_error_signature that takes the whole message
extract_error_signature_whole_message(data) ==
    IF ~json_parses(data) THEN unknown
    ELSE LET data_dict == json_loads(data)
             message == Get(data_dict, "message", <<>>)
             service == Get(data_dict, "service", unknown)
         IN  join(<<":", ":">>, <<service, message>>)

\* _extract_error_signature(data)
extract_error_signature(data) ==
    IF ~json_parses(data) THEN unknown
    ELSE LET data_dict == json_loads(data)
             message == Get(data_dict, "message", <<>>)
             service == Get(data_dict, "service", unknown)
             signature_parts ==
                 << service,
                    IF InStr(":", message) THEN split(message, ":")[1]
                    ELSE slice_to(message, SignaturePrefixLen) >>
         IN  join(<<":", ":">>, signature_parts)

\* create_error_memory(events)
create_error_memory(table) ==
    LET IsError(e) == e.event_type = "error"
        error_events == SelectSeq(table, IsError)
        signature(i) == extract_error_signature(error_events[i].data)
        keys == { signature(i) : i \in Positions(error_events) }
    IN  [ k \in keys |->
            LET InGroup(e) == extract_error_signature(e.data) = k
                group == TimestampColumn(SelectSeq(error_events, InGroup))
            IN  [ error_signature |-> k,
                  occurrence_count |-> reducers_count(group),
                  first_occurrence |-> reducers_earliest(group),
                  last_occurrence |-> reducers_latest(group) ] ]

---------------------------------------------------------------------------
(* The event table and the memory tables as a state machine: a row that    *)
(* arrives is appended to the table and the reduced tables follow it.      *)

MaxEvents == 3

\* an event arrives: events is the table handed to create_priority_memory
\* and to create_error_memory
Ingest(event_type, data, priority) ==
    LET table == Append(events, [ timestamp |-> Len(events) + 1,
                                  event_type |-> event_type, data |-> data,
                                  priority |-> priority ])
    IN  /\ events' = table
        /\ priority_memory' = create_priority_memory(table)
        /\ error_memory' = create_error_memory(table)
        /\ UNCHANGED <<planner_vars, score, executor_vars, pipeline_vars, client_vars>>

\* events of three types with priorities on both sides of the filter
MemoryEventTypes == {"error", "deployment", "commit"}

MemoryPriorities == {3, 5, 7, 8, 10}

IngestScored ==
    /\ Len(events) < MaxEvents
    /\ \E event_type \in MemoryEventTypes, priority \in MemoryPriorities :
          Ingest(event_type, json_dumps(EmptyDict), priority)

NextMemory == IngestScored

SpecMemory == Init /\ [][NextMemory]_vars

\* n times the character x
Xs(n) == [i \in 1 .. n |-> "x"]

\* messages without a colon, with one, with two, and messages longer than
\* the prefix that differ before it, after it, or have their colon after it
ErrorMessages ==
    { <<>>,
      <<"a">>,
      <<"a", ":", "b">>,
      <<"a", ":", "c", ":", "d">>,
      Xs(52),
      Xs(50) \o <<"y", "z">>,
      Xs(49) \o <<"y", "x", "x">>,
      Xs(51) \o <<":", "y">> }

ErrorServices == { <<"a", "p", "i">>, <<"d", "b">> }

ErrorPayloads ==
    { [message |-> m, service |-> s] : m \in ErrorMessages, s \in ErrorServices }
    \cup { [message |-> <<"a">>], [message |-> Xs(52)] }
    \cup { [service |-> s] : s \in ErrorServices }

ErrorData == { json_dumps(d) : d \in ErrorPayloads } \cup { [text |-> "not json"] }

IngestError ==
    /\ Len(events) < MaxEvents
    /\ \/ \E data \in ErrorData : Ingest("error", data, 10)
       \/ Ingest("commit", json_dumps([message |-> <<"a">>]), 5)

NextErrors == IngestError

SpecErrors == Init /\ [][NextErrors]_vars

---------------------------------------------------------------------------
(* What the specification says of the memory tables.                       *)

\* the event types observed so far and the priorities observed of a type
Observed == { events[i].event_type : i \in 1 .. Len(events) }

ObservedPriorities(t) ==
    { events[i].priority : i \in { j \in 1 .. Len(events) : events[j].event_type = t } }

DocMax(S) == CHOOSE m \in S : \A n \in S : n <= m

\* C15 as stated: every observed event type has a row in the priority memory
\* whose max_priority is the greatest priority observed of the type
C15_MaxOfAllObserved ==
    \A t \in Observed :
        /\ t \in DOMAIN priority_memory
        /\ priority_memory[t].max_priority = DocMax(ObservedPriorities(t))

\* C15 amended: an observed event type has a row in the priority memory
\* exactly when one of its events had priority 7 or more, and then the row's
\* max_priority is the greatest priority observed of the type
C15_MaxOfHighObserved ==
    \A t \in Observed :
        IF \E p \in ObservedPriorities(t) : p >= 7
        THEN /\ t \in DOMAIN priority_memory
             /\ priority_memory[t].max_priority = DocMax(ObservedPriorities(t))
        ELSE t \notin DOMAIN priority_memory

\* a type seen below and above the filter, its greatest priority not the
\* last, next to a type seen below the filter only
C15_Witness ==
    /\ Len(events) = 3
    /\ events[1].event_type = "deployment" /\ events[1].priority = 10
    /\ events[2].event_type = "deployment" /\ events[2].priority = 5
    /\ events[3].event_type = "commit" /\ events[3].priority = 5
    /\ priority_memory["deployment"].max_priority = 10
    /\ "commit" \notin DOMAIN priority_memory

\* C16: in every row of the priority memory the average is at most the
\* maximum: the sum of the priorities is at most max_priority times their
\* number
C16_AvgAtMostMax ==
    \A t \in DOMAIN priority_memory :
        priority_memory[t].avg_priority.sum
            <= priority_memory[t].max_priority * priority_memory[t].avg_priority.count

\* a row reduced from events of different priorities: the average is below
\* the maximum
C16_Witness ==
    \E t \in DOMAIN priority_memory :
        /\ priority_memory[t].urgent_count >= 2
        /\ priority_memory[t].avg_priority.sum
              < priority_memory[t].max_priority * priority_memory[t].avg_priority.count

\* the documented signature of an error payload
DocHasColon(m) == \E i \in 1 .. Len(m) : m[i] = ":"

DocBeforeColon(m) ==
    LET first == CHOOSE i \in 1 .. Len(m) :
                     m[i] = ":" /\ ~ \E j \in 1 .. (i - 1) : m[j] = ":"
    IN  [i \in 1 .. (first - 1) |-> m[i]]

DocFirst50(m) == [i \in 1 .. (IF Len(m) < 50 THEN Len(m) ELSE 50) |-> m[i]]

DocSignature(data) ==
    IF "json" \notin DOMAIN data THEN <<"u", "n", "k", "n", "o", "w", "n">>
    ELSE LET d == data.json
             service == IF "service" \in DOMAIN d THEN d.service
                        ELSE <<"u", "n", "k", "n", "o", "w", "n">>
             message == IF "message" \in DOMAIN d THEN d.message ELSE <<>>
         IN  service \o <<":", ":">>
                 \o (IF DocHasColon(message) THEN DocBeforeColon(message)
                     ELSE DocFirst50(message))

ErrorRows == { i \in 1 .. Len(events) : events[i].event_type = "error" }

\* C17: the rows of the error memory are the documented signatures of the
\* error events, and the row of a signature counts the error events that
\* have this signature: two error events are grouped together exactly when
\* their documented signatures are equal
C17_GroupedBySignature ==
    /\ DOMAIN error_memory = { DocSignature(events[i].data) : i \in ErrorRows }
    /\ \A i \in ErrorRows :
          error_memory[DocSignature(events[i].data)].occurrence_count
              = Cardinality({ j \in ErrorRows :
                                DocSignature(events[j].data) = DocSignature(events[i].data) })

\* two error events with different long messages that agree on the first 50
\* characters share a row, and a third that has its colon after them does not
C17_Witness ==
    /\ Len(events) = 3
    /\ ErrorRows = {1, 2, 3}
    /\ \A i \in 1 .. 3 : "json" \in DOMAIN events[i].data
                          /\ "message" \in DOMAIN events[i].data.json
    /\ events[1].data.json.message = Xs(52)
    /\ events[2].data.json.message = Xs(50) \o <<"y", "z">>
    /\ events[3].data.json.message = Xs(51) \o <<":", "y">>
    /\ Cardinality(DOMAIN error_memory) = 2
    /\ \E k \in DOMAIN error_memory : error_memory[k].occurrence_count = 2

---------------------------------------------------------------------------
(* agent_simple.py: build_pipeline                                         *)
(*                                                                         *)
(* Pathway keeps every table of the pipeline equal to its defining         *)
(* expression over the input table.  The rows that arrive together form a  *)
(* batch; after a batch, memory_state holds the counts over all rows so    *)
(* far, the join gives every row the count of its type, and a row whose    *)
(* columns have changed is replaced: the applied functions _plan_actions   *)
(* and _execute_actions run on the replacing row.  Rows of one batch are   *)
(* taken in the order of the table.                                        *)

\* {**d1, **d2}
Merge(d1, d2) ==
    [ k \in DOMAIN d1 \cup DOMAIN d2 |-> IF k \in DOMAIN d2 THEN d2[k] ELSE d1[k] ]

\* memory_state: classified_events grouped by event_type and reduced
reduce_memory_state(table) ==
    LET keys == { table[i].event_type : i \in Positions(table) }
    IN  [ k \in keys |->
            LET InGroup(e) == e.event_type = k
                group == SelectSeq(table, InGroup)
            IN  [ event_type |-> k,
                  event_count |-> reducers_count(group),
                  last_seen |-> reducers_latest(TimestampColumn(group)),
                  accumulated_data |-> [i \in Positions(group) |-> group[i].data] ] ]

\* events_with_context: the event_count joined to row i of the table; the
\* None of a row without a partner, which is falsy, is written 0
joined_event_count(table, mem, i) ==
    IF table[i].event_type \in DOMAIN mem
    THEN mem[table[i].event_type].event_count
    ELSE 0

\* _plan_actions(event_type, data, priority, event_count) with the planner's
\* rule table
plan_actions(rules_table, event_type, data, priority, event_count) ==
    LET data_dict == IF json_parses(data) THEN json_loads(data) ELSE EmptyDict
        context == [ event_count |-> IF event_count /= 0 THEN event_count ELSE 1,
                     priority |-> priority ]
        actions == plan_(rules_table, event_type, data_dict, priority, context)
        action_dicts ==
            [ i \in 1 .. Len(actions) |->
                Merge([type |-> actions[i].type, priority |-> actions[i].priority],
                      actions[i].params) ]
    IN  json_dumps(action_dicts)

\* the executor as a call of execute leaves it
executor_after(e) ==
    [ execution_log |-> e.execution_log, task_counter |-> e.task_counter,
      notification_counter |-> e.notification_counter ]

RECURSIVE execute_each(_, _, _)

\* the loop of _execute_actions after a call of execute has ended as e
each_after(e, actions, results) ==
    IF e.outcome.raised
    THEN [ executor |-> executor_after(e), results |-> results, raised |-> TRUE,
           error |-> e.outcome.error ]
    ELSE execute_each(executor_after(e), Tail(actions), Append(results, e.outcome.value))

\* for action in actions: results.append(self.executor.execute(action)),
\* from the executor self and the results so far, up to an exception
execute_each(self, actions, results) ==
    IF actions = <<>>
    THEN [executor |-> self, results |-> results, raised |-> FALSE]
    ELSE each_after(execute(self, Head(actions)), actions, results)

\* the text _execute_actions returns after its loop has ended as r
actions_result(r) ==
    IF r.raised
    THEN [ executor |-> r.executor,
           execution_result |-> json_dumps([status |-> "error", error |-> r.error]) ]
    ELSE [ executor |-> r.executor,
           execution_result |-> json_dumps([ status |-> "completed",
                                             actions_executed |-> Len(r.results),
                                             results |-> r.results ]) ]

\* _execute_actions(action_plan, event_type): the executor afterwards and the
\* text returned
execute_actions(self, action_plan, event_type) ==
    IF json_loads(action_plan) = <<>>
    THEN [ executor |-> self,
           execution_result |-> json_dumps([ status |-> "no_action",
                                             reason |-> "No actions required for this event" ]) ]
    ELSE actions_result(execute_each(self, json_loads(action_plan), <<>>))

\* a row of the output ahead of the rows that follow it
then_rows(first, rest) ==
    [executor |-> rest.executor, added |-> <<first>> \o rest.added]

\* the row of executed_actions for a row of events_with_context
output_row(row, event_count, action_plan, execution_result) ==
    [ timestamp |-> row.timestamp, event_type |-> row.event_type,
      event_count |-> event_count, action_plan |-> action_plan,
      execution_result |-> execution_result ]

RECURSIVE run_rows(_, _, _, _, _)

\* the executing step on a row that has been planned, and the later rows
executed_rows(rules_table, self, table, mem, rows, event_count, action_plan, x) ==
    then_rows(output_row(table[Head(rows)], event_count, action_plan, x.execution_result),
              run_rows(rules_table, x.executor, table, mem, Tail(rows)))

\* the planning step on a row that has its count, and what follows
planned_rows(rules_table, self, table, mem, rows, event_count, action_plan) ==
    executed_rows(rules_table, self, table, mem, rows, event_count, action_plan,
                  execute_actions(self, action_plan, table[Head(rows)].event_type))

counted_rows(rules_table, self, table, mem, rows, event_count) ==
    planned_rows(rules_table, self, table, mem, rows, event_count,
                 plan_actions(rules_table, table[Head(rows)].event_type,
                              table[Head(rows)].data, table[Head(rows)].priority,
                              event_count))

\* the planning and the executing step on the rows of the list rows, in
\* order: the executor afterwards and the rows added to the output
run_rows(rules_table, self, table, mem, rows) ==
    IF rows = <<>>
    THEN [executor |-> self, added |-> <<>>]
    ELSE counted_rows(rules_table, self, table, mem, rows,
                      joined_event_count(table, mem, Head(rows)))

---------------------------------------------------------------------------
(* The pipeline of agent_simple.py as a state machine *)

MaxStream == 3

MaxBatch == 2

\* the events of the stream: type and payload text
StreamEvents ==
    { [ event_type |-> "error",
        data |-> json_dumps([ message |-> "Database connection timeout",
                              severity |-> "critical", service |-> "api-gateway" ]) ],
      [ event_type |-> "error", data |-> [text |-> "not json"] ],
      [ event_type |-> "test_failure",
        data |-> json_dumps([ test_name |-> "test_user_login",
                              error |-> "AssertionError: Expected 200, got 401",
                              suite |-> "integration" ]) ],
      [ event_type |-> "commit", data |-> json_dumps(EmptyDict) ] }

Batches == UNION { [1 .. n -> StreamEvents] : n \in 1 .. MaxBatch }

\* classified_events: row n of the stream with its priority
classify(n, event) ==
    [ timestamp |-> n, event_type |-> event.event_type, data |-> event.data,
      priority |-> agent_simple_calculate_priority(event.event_type, event.data).value ]

\* the positions of the rows whose columns a batch has changed: the rows of
\* the batch and the earlier rows of their types
changed_rows(table, batch_types) ==
    LET Changed(i) == table[i].event_type \in batch_types
    IN  SelectSeq([i \in 1 .. Len(table) |-> i], Changed)

\* a batch of events arrives and the pipeline runs to its output
IngestBatch(batch) ==
    LET table == events \o [ i \in 1 .. Len(batch) |-> classify(Len(events) + i, batch[i]) ]
        mem == reduce_memory_state(table)
        batch_types == { batch[i].event_type : i \in 1 .. Len(batch) }
        self == [ execution_log |-> execution_log, task_counter |-> task_counter,
                  notification_counter |-> notification_counter ]
        r == run_rows(action_rules[1], self, table, mem, changed_rows(table, batch_types))
    IN  /\ events' = table
        /\ memory_state' = mem
        /\ output' = output \o r.added
        /\ execution_log' = r.executor.execution_log
        /\ task_counter' = r.executor.task_counter
        /\ notification_counter' = r.executor.notification_counter
        /\ UNCHANGED <<planner_vars, score, result, priority_memory, error_memory, client_vars>>

IngestAny ==
    \E batch \in Batches :
        /\ Len(events) + Len(batch) <= MaxStream
        /\ IngestBatch(batch)

NextPipeline == IngestAny

SpecPipeline == Init /\ [][NextPipeline]_vars

---------------------------------------------------------------------------
(* What the specification says of the pipeline.                            *)

\* k, for the k-th event of its type: the rank of row ts among the rows of
\* its type
DocRank(ts) ==
    Cardinality({ j \in 1 .. ts : events[j].event_type = events[ts].event_type })

\* C13: whenever an event is planned, the event_count handed to the planner
\* is k for the k-th event of its type, however the events are interleaved
\* and batched
C13_CountIsRank ==
    \A n \in 1 .. Len(output) : output[n].event_count = DocRank(output[n].timestamp)

\* C14: the plan of each event is executed once and gives one terminal
\* record: no event has two rows in the output, whatever arrives later
C14_ExecutedOnce ==
    \A m, n \in 1 .. Len(output) :
        output[m].timestamp = output[n].timestamp => m = n

---------------------------------------------------------------------------
(* executor.py: get_execution_stats and get_recent_executions, and a       *)
(* client that keeps account of its calls of execute                       *)

\* sum(1 for log in self.execution_log if log['status'] == 'success')
count_success(log) ==
    LET IsSuccess(entry) == entry.status = "success"
    IN  Len(SelectSeq(log, IsSuccess))

\* get_execution_stats()
get_execution_stats(self) ==
    LET total == Len(self.execution_log)
        successful == count_success(self.execution_log)
    IN  [ total_executions |-> total,
          successful |-> successful,
          failed |-> total - successful,
          tasks_created |-> self.task_counter,
          notifications_sent |-> self.notification_counter ]

\* lst[start:], for any int start
slice_from(lst, start) ==
    LET n == Len(lst)
        first == IF start < 0
                 THEN (IF start + n < 0 THEN 0 ELSE start + n)
                 ELSE (IF start > n THEN n ELSE start)
    IN  SubSeq(lst, first + 1, n)

\* get_recent_executions(limit)
get_recent_executions(self, limit) == slice_from(self.execution_log, 0 - limit)

MaxCalls == 3

MaxLimit == 4

\* actions that succeed, fail in their handler, are skipped, and one that
\* execute cannot dispatch
ClientActions ==
    { [type |-> "create_task", title |-> "Fix error", labels |-> <<"error">>],
      [type |-> "create_task", title |-> "Fix error", labels |-> <<"error", None>>],
      [type |-> "notify", channel |-> "alerts", message |-> "deployment failed"],
      [type |-> "monitor", target |-> "user-service", metrics |-> <<"error_rate">>],
      [type |-> "request_review", reviewers |-> <<None>>],
      [type |-> "deploy_rocket"],
      [title |-> "Fix error"],
      [type |-> ListValue, title |-> "Fix error"] }

\* the executor of the model as the operators above take it
Self ==
    [ execution_log |-> execution_log, task_counter |-> task_counter,
      notification_counter |-> notification_counter ]

\* the client calls execute(action) and notes the call and how it ended
CallExecute(action) ==
    /\ execution_log' = execute(Self, action).execution_log
    /\ task_counter' = execute(Self, action).task_counter
    /\ notification_counter' = execute(Self, action).notification_counter
    /\ result' = [ self |-> "executor", action |-> action,
                   outcome |-> execute(Self, action).outcome ]
    /\ calls' = Append(calls, [action |-> action, outcome |-> execute(Self, action).outcome])
    /\ UNCHANGED <<planner_vars, score, memory_vars, pipeline_vars, threads>>

CallExecuteAny ==
    /\ Len(calls) < MaxCalls
    /\ \E action \in ClientActions : CallExecute(action)

\* the client calls get_execution_stats()
GetExecutionStats ==
    /\ result' = [self |-> "get_execution_stats", outcome |-> Returns(get_execution_stats(Self))]
    /\ UNCHANGED <<planner_vars, score, execution_log, task_counter, notification_counter,
                   memory_vars, pipeline_vars, client_vars>>

\* the client calls get_recent_executions(limit)
GetRecentExecutions(limit) ==
    /\ result' = [ self |-> "get_recent_executions", limit |-> limit,
                   outcome |-> Returns(get_recent_executions(Self, limit)) ]
    /\ UNCHANGED <<planner_vars, score, execution_log, task_counter, notification_counter,
                   memory_vars, pipeline_vars, client_vars>>

GetRecentAny == \E limit \in (0 - 1) .. MaxLimit : GetRecentExecutions(limit)

NextClient ==
    \/ CallExecuteAny
    \/ GetExecutionStats
    \/ GetRecentAny

SpecClient == Init /\ [][NextClient]_vars

---------------------------------------------------------------------------
(* What the specification says of the statistics and of the recent         *)
(* executions.                                                             *)

\* the calls of execute that returned a result of a given status
ReturnedWith(status) ==
    { i \in 1 .. Len(calls) :
        /\ ~calls[i].outcome.raised
        /\ calls[i].outcome.value.status = status }

\* the calls of execute with an action of a given kind
CallsOfKind(kind) ==
    { i \in 1 .. Len(calls) :
        /\ "type" \in DOMAIN calls[i].action
        /\ calls[i].action.type = kind }

StatsRead == result.self = "get_execution_stats"

\* C25: the statistics report as total_executions the number of calls of
\* execute, as successful the number of calls that returned status success
\* and as failed the number of calls that returned status failed
C25_StatsCountCalls ==
    StatsRead =>
        /\ result.outcome.value.total_executions = Len(calls)
        /\ result.outcome.value.successful = Cardinality(ReturnedWith("success"))
        /\ result.outcome.value.failed = Cardinality(ReturnedWith("failed"))

\* C26: the statistics report as tasks_created the number of create_task
\* executions that returned status success and as notifications_sent the
\* number of notify executions that returned status success
C26_CountersCountSuccesses ==
    StatsRead =>
        /\ result.outcome.value.tasks_created
              = Cardinality(CallsOfKind("create_task") \cap ReturnedWith("success"))
        /\ result.outcome.value.notifications_sent
              = Cardinality(CallsOfKind("notify") \cap ReturnedWith("success"))

\* C30: for a limit of 0 or more, get_recent_executions(limit) returns the
\* last min(limit, n) entries of the log of n entries, in their order, and
\* so never more than limit entries
C30_RecentIsLastEntries ==
    (result.self = "get_recent_executions" /\ result.limit >= 0) =>
        LET n == Len(execution_log)
            k == IF result.limit < n THEN result.limit ELSE n
        IN  /\ Len(result.outcome.value) = k
            /\ \A i \in 1 .. k : result.outcome.value[i] = execution_log[n - k + i]

---------------------------------------------------------------------------
(* executor.py: two threads in _execute_create_task on one executor        *)
(*                                                                         *)
(* self.task_counter += 1 reads the attribute, adds and writes it back,    *)
(* and the f-string of the next statement reads the attribute again; no    *)
(* lock is held, so the steps of the two threads interleave freely.  The   *)
(* handler's locals are the fields of threads[t].                          *)

\* the create_task actions the threads execute
ThreadActions ==
    { [type |-> "create_task", title |-> "Fix error", labels |-> <<"error">>],
      [type |-> "create_task", title |-> "Test failed", labels |-> <<"test">>],
      [type |-> "create_task"] }

\* thread t enters execute(action), which calls _execute_create_task
ThreadCall(t, action) ==
    /\ threads[t].pc = "idle"
    /\ threads' = [threads EXCEPT ![t] = [ pc |-> "load", action |-> action,
                                           task_counter |-> 0, task_id |-> "" ]]
    /\ UNCHANGED <<planner_vars, score, executor_vars, memory_vars, pipeline_vars, calls>>

\* self.task_counter += 1: the value of the attribute is read
ThreadLoad(t) ==
    /\ threads[t].pc = "load"
    /\ threads' = [threads EXCEPT ![t].pc = "store", ![t].task_counter = task_counter]
    /\ UNCHANGED <<planner_vars, score, executor_vars, memory_vars, pipeline_vars, calls>>

\* self.task_counter += 1: the value read, plus one, is written
ThreadStore(t) ==
    /\ threads[t].pc = "store"
    /\ task_counter' = threads[t].task_counter + 1
    /\ threads' = [threads EXCEPT ![t].pc = "format"]
    /\ UNCHANGED <<planner_vars, score, execution_log, notification_counter, result,
                   memory_vars, pipeline_vars, calls>>

\* task_id = f"TASK-{self.task_counter:04d}"
ThreadFormat(t) ==
    /\ threads[t].pc = "format"
    /\ threads' = [threads EXCEPT ![t].pc = "return",
                                  ![t].task_id = "TASK-" \o fmt_04d(task_counter)]
    /\ UNCHANGED <<planner_vars, score, executor_vars, memory_vars, pipeline_vars, calls>>

\* the handler returns its result and execute logs it
ThreadReturn(t) ==
    /\ threads[t].pc = "return"
    /\ execution_log' =
          Append(execution_log,
                 log_entry(threads[t].action,
                           [ status |-> "success", task_id |-> threads[t].task_id,
                             title |-> Get(threads[t].action, "title", "Untitled Task"),
                             priority |-> Get(threads[t].action, "priority", "medium"),
                             assignee |-> Get(threads[t].action, "assignee", "unassigned") ],
                           "success"))
    /\ threads' = [threads EXCEPT ![t].pc = "done"]
    /\ UNCHANGED <<planner_vars, score, task_counter, notification_counter, result,
                   memory_vars, pipeline_vars, calls>>

NextThreads ==
    \E t \in Threads :
        \/ \E action \in ThreadActions : ThreadCall(t, action)
        \/ ThreadLoad(t)
        \/ ThreadStore(t)
        \/ ThreadFormat(t)
        \/ ThreadReturn(t)

SpecThreads == Init /\ [][NextThreads]_vars

\* C24: when two create_task executions have run concurrently on one
\* executor, they have obtained different task ids and task_counter has
\* grown by exactly 2: no increment is lost in any interleaving
C24_AtomicIncrement ==
    (\A t \in Threads : threads[t].pc = "done") =>
        /\ \A t, u \in Threads : t /= u => threads[t].task_id /= threads[u].task_id
        /\ task_counter = 2

---------------------------------------------------------------------------
(* agent.py: planning, the reviewing step and the executing step           *)
(*                                                                         *)
(* The reviewer self.llm is outside the program: a call of it either       *)
(* raises or returns a text, which parses to a mapping, or does not parse, *)
(* or is empty.                                                            *)

\* the list actions of _plan_actions for a payload that has parsed
agent_planned(event_type, data_dict, priority, event_count) ==
    IF event_type = "error" /\ priority >= 8
    THEN << [ type |-> "create_task",
              title |-> "Fix: " \o Fmt(Get(data_dict, "message", "Unknown error")),
              priority |-> "high", labels |-> <<"bug", "automated">> ],
            [ type |-> "notify", channel |-> "urgent",
              message |-> "Critical error detected: "
                              \o Fmt(Get(data_dict, "message", None)) ] >>
    ELSE IF event_type = "test_failure"
    THEN << [ type |-> "create_task",
              title |-> "Test failed: " \o Fmt(Get(data_dict, "test_name", None)),
              priority |-> "medium", labels |-> <<"test", "automated">> ] >>
         \o (IF event_count /= 0 /\ event_count > 3
             THEN << [type |-> "escalate", reason |-> "Repeated test failures detected"] >>
             ELSE <<>>)
    ELSE IF event_type = "code_review" /\ priority >= 6
    THEN << [ type |-> "schedule", activity |-> "code_review",
              pr_id |-> Get(data_dict, "pr_id", None), time_slot |-> "next_available" ] >>
    ELSE IF event_type = "deployment"
    THEN << [ type |-> "monitor", target |-> Get(data_dict, "service", None),
              duration |-> "30m" ],
            [ type |-> "create_task", title |-> "Post-deployment verification",
              priority |-> "high", labels |-> <<"deployment", "automated">> ] >>
    ELSE IF event_type = "security_alert"
    THEN << [ type |-> "create_task",
              title |-> "Security: " \o Fmt(Get(data_dict, "alert_type", None)),
              priority |-> "critical", labels |-> <<"security", "automated">> ],
            [ type |-> "notify", channel |-> "security",
              message |-> Get(data_dict, "details", None) ],
            [ type |-> "block_deployment", reason |-> "Security alert active" ] >>
    ELSE IF event_type = "issue_created" /\ event_count /= 0 /\ event_count > 10
    THEN << [ type |-> "aggregate", action |-> "create_epic",
              reason |-> "Multiple related issues detected" ] >>
    ELSE <<>>

\* _plan_actions(event_type, data, priority, event_count) of agent.py
agent_plan_actions(event_type, data, priority, event_count) ==
    IF ~json_parses(data) THEN Raises("JSONDecodeError")
    ELSE Returns(json_dumps(agent_planned(event_type, json_loads(data), priority,
                                          event_count)))

\* the text of _llm_reason for an empty plan
NoActionsText == [text |-> "No actions required - event logged for monitoring"]

\* the approval _llm_reason builds when its try block raises e
fail_open(e) ==
    json_dumps([ validation |-> "approved",
                 reasoning |-> "LLM reasoning failed, using autonomous plan: " \o e,
                 adjustments |-> <<>> ])

\* _llm_reason(event_type, data, action_plan), llm being how the call
\* self.llm(prompt) ends
llm_reason(event_type, data, action_plan, llm) ==
    IF ~json_parses(data) \/ ~json_parses(action_plan)
    THEN fail_open("JSONDecodeError")
    ELSE IF json_loads(action_plan) = <<>>
    THEN NoActionsText
    ELSE IF llm.raised
    THEN fail_open(llm.error)
    ELSE llm.value

\* bool(reasoning), of a text
nonempty_text(text) == ~("text" \in DOMAIN text /\ text.text = "")

\* the executor and the text _execute_actions returns
Record(self, execution_result) == [executor |-> self, execution_result |-> execution_result]

RECURSIVE agent_execute_each(_, _, _)

\* the loop of _execute_actions of agent.py after a call of execute has
\* ended as e: the result is appended and the line of the log is printed,
\* which reads action['type']
agent_each_after(e, actions, results) ==
    IF e.outcome.raised
    THEN [ executor |-> executor_after(e), results |-> results, raised |-> TRUE,
           error |-> e.outcome.error ]
    ELSE IF "type" \notin DOMAIN Head(actions)
    THEN [ executor |-> executor_after(e), results |-> Append(results, e.outcome.value),
           raised |-> TRUE, error |-> "KeyError: 'type'" ]
    ELSE agent_execute_each(executor_after(e), Tail(actions),
                            Append(results, e.outcome.value))

\* for action in actions: ... of agent.py
agent_execute_each(self, actions, results) ==
    IF actions = <<>>
    THEN [executor |-> self, results |-> results, raised |-> FALSE]
    ELSE agent_each_after(execute(self, Head(actions)), actions, results)

\* the list _execute_actions runs: the adjustments of the response when
\* they are a non-empty list, else the plan
actions_to_run(actions, reasoning_data) ==
    IF Get(reasoning_data, "adjustments", <<>>) /= <<>>
    THEN reasoning_data.adjustments
    ELSE actions

\* _execute_actions once action_plan and reasoning have parsed, without the
\* test for a rejected verdict
agent_execute_parsed_unreviewed(self, actions, reasoning_data) ==
    actions_result(agent_execute_each(self, actions_to_run(actions, reasoning_data), <<>>))

\* _execute_actions once action_plan and reasoning have parsed
agent_execute_parsed(self, actions, reasoning_data) ==
    IF Get(reasoning_data, "validation", None) = "rejected"
    THEN Record(self, json_dumps([ status |-> "rejected",
                                   reason |-> Get(reasoning_data, "reasoning", None) ]))
    ELSE actions_result(agent_execute_each(self, actions_to_run(actions, reasoning_data),
                                           <<>>))

\* _execute_actions(action_plan, reasoning) of agent.py
agent_execute_actions(self, action_plan, reasoning) ==
    IF ~json_parses(action_plan)
    THEN Record(self, json_dumps([status |-> "error", error |-> "JSONDecodeError"]))
    ELSE IF ~nonempty_text(reasoning)
    THEN agent_execute_parsed(self, json_loads(action_plan), EmptyDict)
    ELSE IF ~json_parses(reasoning)
    THEN Record(self, json_dumps([status |-> "error", error |-> "JSONDecodeError"]))
    ELSE agent_execute_parsed(self, json_loads(action_plan), json_loads(reasoning))

---------------------------------------------------------------------------
(* The reviewing orchestrator of agent.py as a state machine: an event is  *)
(* scored, planned, reviewed and executed, and its record is put out.      *)

MaxReviewed == 2

\* events with the count joined to them: plans of two actions, of one, of
\* two after repetition, and the empty plan
ReviewEvents ==
    { [ event_type |-> "error", event_count |-> 1,
        data |-> json_dumps([ message |-> "Database connection timeout",
                              severity |-> "critical", service |-> "api-gateway" ]) ],
      [ event_type |-> "test_failure", event_count |-> 1,
        data |-> json_dumps([test_name |-> "test_user_login", suite |-> "integration"]) ],
      [ event_type |-> "test_failure", event_count |-> 4,
        data |-> json_dumps([test_name |-> "test_user_login", suite |-> "integration"]) ],
      [ event_type |-> "commit", event_count |-> 1, data |-> json_dumps(EmptyDict) ] }

\* replacement lists a response can carry: one known action; an action
\* without a type before a known one; a skipped, a failing and a known one
AdjustmentLists ==
    { << [type |-> "notify", channel |-> "alerts", message |-> "reviewed"] >>,
      << [title |-> "Fix error"],
         [type |-> "notify", channel |-> "alerts", message |-> "reviewed"] >>,
      << [type |-> "deploy_rocket"],
         [type |-> "create_task", title |-> "Fix error", labels |-> <<"bug", None>>],
         [type |-> "notify", channel |-> "alerts", message |-> "reviewed"] >> }

\* the texts a reviewer returns
Responses ==
    { json_dumps([validation |-> v, reasoning |-> "reviewed", adjustments |-> a]) :
        v \in {"approved", "adjusted", "rejected"}, a \in AdjustmentLists \cup {<<>>} }
    \cup { json_dumps([reasoning |-> "reviewed"]),
           [text |-> "Looks fine to me"],
           [text |-> ""] }

\* how a call of self.llm(prompt) ends
LlmOutcomes == { Returns(r) : r \in Responses } \cup { Raises("TimeoutError") }

\* the record of an event whose plan and review are at hand
reviewed_record(self, event, priority, action_plan, reasoning) ==
    [ event_type |-> event.event_type, data |-> event.data, priority |-> priority,
      event_count |-> event.event_count, action_plan |-> action_plan,
      reasoning |-> reasoning,
      executed |-> agent_execute_actions(self, action_plan, reasoning) ]

\* the record of an event that has its plan
planned_record(self, event, priority, action_plan, llm) ==
    reviewed_record(self, event, priority, action_plan,
                    llm_reason(event.event_type, event.data, action_plan, llm))

\* the record of an event that has its priority
scored_record(self, event, priority, llm) ==
    planned_record(self, event, priority,
                   agent_plan_actions(event.event_type, event.data, priority,
                                      event.event_count).value,
                   llm)

\* the steps of build_pipeline of agent.py on one event
event_record(self, event, llm) ==
    scored_record(self, event,
                  agent_calculate_priority(event.event_type, event.data).value, llm)

\* the row put out for a record
put_out(rec) ==
    [ event_type |-> rec.event_type, data |-> rec.data, priority |-> rec.priority,
      event_count |-> rec.event_count, action_plan |-> rec.action_plan,
      reasoning |-> rec.reasoning, execution_result |-> rec.executed.execution_result ]

\* the pipeline runs on an event; llm is how the reviewer's call ends
ProcessEvent(event, llm) ==
    /\ output' = Append(output, put_out(event_record(Self, event, llm)))
    /\ execution_log' = event_record(Self, event, llm).executed.executor.execution_log
    /\ task_counter' = event_record(Self, event, llm).executed.executor.task_counter
    /\ notification_counter' =
          event_record(Self, event, llm).executed.executor.notification_counter
    /\ UNCHANGED <<planner_vars, score, result, memory_vars, memory_state, client_vars>>

ProcessAny ==
    /\ Len(output) < MaxReviewed
    /\ \E event \in ReviewEvents, llm \in LlmOutcomes : ProcessEvent(event, llm)

NextReview == ProcessAny

SpecReview == Init /\ [][NextReview]_vars

---------------------------------------------------------------------------
(* Claims about the reviewing orchestrator.                                 *)

\* the row put out last
LastRow == output[Len(output)]

\* an event has just been processed
Processed == Len(output') = Len(output) + 1

\* the status of a row's terminal record
StatusOf(row) == row.execution_result.json.status

\* the verdict of a review that parses as one
VerdictOf(reasoning) ==
    IF json_parses(reasoning) THEN Get(reasoning.json, "validation", None) ELSE None

\* the replacement list of a review
AdjustmentsOf(reasoning) ==
    IF json_parses(reasoning) THEN Get(reasoning.json, "adjustments", <<>>) ELSE <<>>

\* C23: when the reviewer's verdict is rejected, no action is executed: the
\* execution log and both counters are as before and the record's status is
\* rejected, also when the response carries replacement actions.
C23_RejectedRunsNothing ==
    [][ (Processed /\ VerdictOf(output'[Len(output')].reasoning) = "rejected")
          => /\ StatusOf(output'[Len(output')]) = "rejected"
             /\ UNCHANGED <<execution_log, task_counter, notification_counter>> ]_vars

\* a rejected review with replacement actions follows an executed event
C23_Witness ==
    /\ Len(output) = 2
    /\ VerdictOf(LastRow.reasoning) = "rejected"
    /\ AdjustmentsOf(LastRow.reasoning) /= <<>>
    /\ StatusOf(LastRow) = "rejected"
    /\ StatusOf(output[1]) = "completed"
    /\ execution_log /= <<>>
    /\ task_counter > 0

\* the row put out by the step
NewRow == output'[Len(output')]

\* a review that parses as a verdict
IsVerdict(reasoning) == VerdictOf(reasoning) \in {"approved", "adjusted", "rejected"}

\* the list the executor is to run for a row whose review is a verdict: the
\* replacement list of an adjusted verdict, the plan of an approved one
DocExecutedList(row) ==
    IF VerdictOf(row.reasoning) = "adjusted"
    THEN AdjustmentsOf(row.reasoning)
    ELSE row.action_plan.json

\* a row whose review approves the plan as it is, or replaces it
DocRuns(row) ==
    \/ VerdictOf(row.reasoning) = "approved" /\ AdjustmentsOf(row.reasoning) = <<>>
    \/ VerdictOf(row.reasoning) = "adjusted" /\ AdjustmentsOf(row.reasoning) /= <<>>

\* the entries the step has appended to the execution log
Appended == SubSeq(execution_log', Len(execution_log) + 1, Len(execution_log'))

\* the record holds one result per action of the list, in the list's order
OneResultPerAction(row, list) ==
    /\ StatusOf(row) = "completed"
    /\ Len(row.execution_result.json.results) = Len(list)
    /\ Len(Appended) = Len(list)
    /\ \A i \in 1..Len(list) :
          /\ Appended[i].action = list[i]
          /\ Appended[i].result = row.execution_result.json.results[i]

\* C21: when an action of the executed list fails or is skipped, the
\* remaining actions are still executed: the terminal record holds one
\* result per action of the executed list, in list order.
C21_OneResultPerAction ==
    [][ (Processed /\ DocRuns(NewRow))
          => OneResultPerAction(NewRow, DocExecutedList(NewRow)) ]_vars

\* the plan of a row
PlanOf(row) == row.action_plan.json

\* the review of a row is that of a reviewer whose call failed
ReviewerFailed(row) == \E llm \in LlmOutcomes : llm.raised /\ row.reasoning = fail_open(llm.error)

\* the review of a row is a response that is no verdict
NoVerdict(row) == PlanOf(row) /= <<>> /\ ~IsVerdict(row.reasoning)

\* C22: when the reviewer's call fails or its response cannot be parsed as a
\* verdict, the event is treated as approved: every action of the original
\* plan is executed and the record's status is completed, never error.
C22_FailOpen ==
    [][ (Processed /\ (ReviewerFailed(NewRow) \/ NoVerdict(NewRow)))
          => OneResultPerAction(NewRow, PlanOf(NewRow)) ]_vars

\* C27: when the verdict is approved, exactly the planner's original actions
\* are executed, whatever replacement list the response carries.
C27_ApprovedRunsPlan ==
    [][ (Processed /\ VerdictOf(NewRow.reasoning) = "approved")
          => OneResultPerAction(NewRow, PlanOf(NewRow)) ]_vars

\* C28: an event with an empty plan ends in a record that is no error, with
\* no action executed: the execution log and both counters are as before.
C28_EmptyPlanNoError ==
    [][ (Processed /\ PlanOf(NewRow) = <<>>)
          => /\ StatusOf(NewRow) /= "error"
             /\ UNCHANGED <<execution_log, task_counter, notification_counter>> ]_vars

---------------------------------------------------------------------------
(* The planner and the executor together, as test_integration of           *)
(* test_agent.py and _plan_actions of agent_simple.py put them together:   *)
(* the planner's Action objects are flattened to dicts, and the dicts are  *)
(* executed.                                                               *)

\* ActionExecutor(): the executor after construction
ActionExecutor == [execution_log |-> <<>>, task_counter |-> 0, notification_counter |-> 0]

\* {'type': action.type.value, 'priority': action.priority, **action.params}
action_dict(action) ==
    Merge([type |-> action.type, priority |-> action.priority], action.params)

\* the dicts of a list of Action objects
action_dicts(actions) == [i \in 1 .. Len(actions) |-> action_dict(actions[i])]

\* ExecutionValidator.validate(action)
validate(action) ==
    IF "type" \notin DOMAIN action
    THEN FALSE
    ELSE IF action.type = "create_task"
    THEN "title" \in DOMAIN action
    ELSE IF action.type = "notify"
    THEN "channel" \in DOMAIN action /\ "message" \in DOMAIN action
    ELSE IF action.type = "block_deployment"
    THEN "reason" \in DOMAIN action
    ELSE TRUE

\* what the caller holds once the loop over the dicts has ended as r
integration_result(actions, dicts, r) ==
    [ self |-> "test_integration", actions |-> actions, action_dicts |-> dicts,
      valid |-> [i \in 1 .. Len(dicts) |-> validate(dicts[i])],
      executor |-> [i \in 1 .. Len(dicts) |-> select_executor(dicts[i].type)],
      raised |-> r.raised, results |-> r.results ]

\* the executor after the loop has ended as r
ExecutedPlan(actions, dicts, r) ==
    /\ result' = integration_result(actions, dicts, r)
    /\ execution_log' = r.executor.execution_log
    /\ task_counter' = r.executor.task_counter
    /\ notification_counter' = r.executor.notification_counter

\* the returned actions are flattened and executed on a new executor; the
\* test ends with the loop
ExecutePlan ==
    /\ pc = "returned"
    /\ ExecutedPlan(plan, action_dicts(plan),
                    execute_each(ActionExecutor, action_dicts(plan), <<>>))
    /\ pc' = "executed"
    /\ UNCHANGED <<action_rules, call, plan, prev, score, memory_vars, pipeline_vars,
                   client_vars>>

NextIntegration ==
    \/ CallPlanAny
    \/ PlanReturn
    \/ ExecutePlan

SpecIntegration == Init /\ [][NextIntegration]_vars

\* a plan has been flattened and executed
PlanExecuted == result.self = "test_integration"

\* C29: every action the planner emits, once flattened into
\* {type, priority, ...params}, is accepted by ExecutionValidator.validate
\* and dispatched to the handler of its own kind, never skipped as unknown;
\* the flattening keeps the action's type and priority.
C29_PlannedActionsDispatched ==
    PlanExecuted =>
      /\ ~result.raised
      /\ Len(result.results) = Len(result.actions)
      /\ \A i \in 1 .. Len(result.actions) :
            /\ result.action_dicts[i].type = result.actions[i].type
            /\ result.action_dicts[i].priority = result.actions[i].priority
            /\ result.valid[i]
            /\ result.actions[i].type \in DocKnownKinds
            /\ result.executor[i] = "_execute_" \o result.actions[i].type
            /\ result.results[i].status /= "skipped"

\* an executed plan holds the three kinds the validator has field rules
\* for, and a kind it has none for
C29_Witness ==
    /\ PlanExecuted
    /\ \A kind \in {"create_task", "notify", "block_deployment", "auto_fix"} :
          \E i \in 1 .. Len(result.actions) : result.actions[i].type = kind

===========================================================================
